---- MODULE Spec2Model ----
(***************************************************************************)
(* Model of cmd/go-langserver/doc.go: IdentDoc, findInBuiltin, formatNode, *)
(* findTypeSpec, findVarSpec and PackageDoc.                               *)
(*                                                                         *)
(* Go strings are modelled as sequences of tokens: "" is << >>, s + t is   *)
(* s \o t.  Pointers are records with an isNil flag.  The pretty-printer,  *)
(* the type checker's tables and the parsed files are collaborators; the   *)
(* model draws their values from bounded sets.                             *)
(***************************************************************************)
EXTENDS Integers, Sequences, FiniteSets, TLC

\* ------------------------------------------------------------------ bounds
MaxSpecs == 2
MaxEntries == 2

\* ------------------------------------------------------------- basic data
NoPos == 0

EmptyText == << >>

\* *ast.CommentGroup: nil, or a group whose Text() is the given token list
NoComment == [isNil |-> TRUE, text |-> EmptyText]

CommentOf(t) == [isNil |-> FALSE, text |-> t]

CommentText(c) == IF c.isNil THEN EmptyText ELSE c.text

CommentChoices(tag) == {NoComment, CommentOf(EmptyText), CommentOf(<<tag>>)}

\* types.Object (nil is NoObj).  pkg = "" stands for obj.Pkg() == nil.
NoObj ==
  [kind |-> "none", anonymous |-> FALSE, pkg |-> "", name |-> "", pos |-> NoPos,
   val |-> "", imported |-> ""]

MkObj(kind, anonymous, pkg, name, pos, val, imported) ==
  [kind |-> kind, anonymous |-> anonymous, pkg |-> pkg, name |-> name,
   pos |-> pos, val |-> val, imported |-> imported]

\* constant.Value.ExactString(): quoted for strings, digits for integers;
\* the value is carried here already in that form and is never empty.
ExactString(val) == val

\* ast.Spec inside a GenDecl: names is the sequence of positions of the
\* declared identifiers (one for a TypeSpec, one or more for a ValueSpec).
MkSpec(kind, name, names, doc) ==
  [kind |-> kind, name |-> name, names |-> names, doc |-> doc]

\* ast.Node
\* names: for a TypeSpec or ValueSpec node, the positions of its identifiers
MkNode(kind, name, names, doc, comment, specs, lparen, body) ==
  [kind |-> kind, name |-> name, names |-> names, doc |-> doc, comment |-> comment,
   specs |-> specs, lparen |-> lparen, body |-> body]

PlainNode(kind) == MkNode(kind, "", << >>, NoComment, NoComment, << >>, FALSE, FALSE)

NoNode == PlainNode("none")

\* Declaration text.  form "empty" is the Go string ""; "objstring" is
\* obj.String(); "printed" is what printer.Fprint wrote for the sanitized
\* copy, recorded by the content of that copy.
EmptyDecl ==
  [form |-> "empty", kind |-> "", name |-> "", hasDoc |-> FALSE,
   hasBody |-> FALSE, lparen |-> FALSE, specs |-> << >>]

ObjString(obj) ==
  [form |-> "objstring", kind |-> obj.kind, name |-> obj.name, hasDoc |-> FALSE,
   hasBody |-> FALSE, lparen |-> FALSE, specs |-> << >>]

Printed(nc) ==
  [form |-> "printed", kind |-> nc.kind, name |-> nc.name,
   hasDoc |-> ~nc.doc.isNil, hasBody |-> nc.body, lparen |-> nc.lparen,
   specs |-> nc.specs]

PackageClause(name) ==
  [form |-> "printed", kind |-> "package", name |-> name, hasDoc |-> FALSE,
   hasBody |-> FALSE, lparen |-> FALSE, specs |-> << >>]

\* ------------------------------------------------------------ the renderer
\* index of the first spec whose position is pos, 0 when there is none
findTypeSpec(decl, pos) ==
  LET hits == {i \in 1..Len(decl.specs) : decl.specs[i].names[1] = pos}
  IN IF hits = {} THEN 0 ELSE CHOOSE i \in hits : \A j \in hits : i <= j

\* index of the first spec one of whose names is at pos, 0 when none
findVarSpec(decl, pos) ==
  LET hits == {i \in 1..Len(decl.specs) :
                 \E k \in 1..Len(decl.specs[i].names) : decl.specs[i].names[k] = pos}
  IN IF hits = {} THEN 0 ELSE CHOOSE i \in hits : \A j \in hits : i <= j

StripDoc(spec) == [spec EXCEPT !.doc = NoComment]

\* GenDeclCopy without the narrowing to the symbol's own spec
GenDeclCopyAllSpecs(n, obj) == [n EXCEPT !.doc = NoComment, !.lparen = FALSE]

\* the copy of a GenDecl that formatNode hands to the printer
GenDeclCopy(n, obj) ==
  LET cp == [n EXCEPT !.doc = NoComment]
  IN IF Len(n.specs) > 0
     THEN IF n.specs[1].kind = "TypeSpec"
          THEN LET i == findTypeSpec(n, obj.pos)
               IN [cp EXCEPT !.specs = IF i # 0 THEN <<StripDoc(n.specs[i])>> ELSE @,
                             !.lparen = FALSE]
          ELSE IF n.specs[1].kind = "ValueSpec"
          THEN LET i == findVarSpec(n, obj.pos)
               IN [cp EXCEPT !.specs = IF i # 0 THEN <<StripDoc(n.specs[i])>> ELSE @,
                             !.lparen = FALSE]
          ELSE cp
     ELSE cp

\* printOK is the outcome of printer.Fprint (err == nil)
formatNode(n, obj, printOK) ==
  IF n.kind = "FuncDecl"
  THEN IF printOK THEN Printed([n EXCEPT !.doc = NoComment, !.body = FALSE])
       ELSE ObjString(obj)
  ELSE IF n.kind = "Field"
  THEN ObjString(obj)
  ELSE IF n.kind = "TypeSpec"
  THEN IF printOK
       THEN Printed(MkNode("GenDecl", "", << >>, NoComment, NoComment,
                           <<MkSpec("TypeSpec", n.name, n.names, NoComment)>>,
                           FALSE, FALSE))
       ELSE ObjString(obj)
  ELSE IF n.kind = "GenDecl"
  THEN IF printOK THEN Printed(GenDeclCopy(n, obj)) ELSE ObjString(obj)
  ELSE ObjString(obj)

\* ------------------------------------------------- the builtin catalogue
\* doc.Package as returned by builtinPackage(): Funcs, Consts, Vars, Types,
\* each type carrying its own associated Funcs, Consts and Vars.
RECURSIVE FlattenTypes(_, _)
\* the field f of every type of ts, concatenated in order
FlattenTypes(ts, f) ==
  IF ts = << >> THEN << >> ELSE Head(ts)[f] \o FlattenTypes(Tail(ts), f)

AllFuncs(pkg) == pkg.Funcs \o FlattenTypes(pkg.Types, "Funcs")

AllConsts(pkg) == pkg.Consts \o FlattenTypes(pkg.Types, "Consts")

AllVars(pkg) == pkg.Vars \o FlattenTypes(pkg.Types, "Vars")

HasName(v, name) == \E k \in 1..Len(v.Names) : v.Names[k] = name

RECURSIVE ScanFuncs(_, _)
\* the first function (or type) entry called name, as a one-element
\* sequence; << >> when the loop runs to its end
ScanFuncs(fs, name) ==
  IF fs = << >> THEN << >>
  ELSE IF Head(fs).Name = name THEN <<Head(fs)>> ELSE ScanFuncs(Tail(fs), name)

RECURSIVE ScanValues(_, _)
\* the first value group binding name
ScanValues(vs, name) ==
  IF vs = << >> THEN << >>
  ELSE IF HasName(Head(vs), name) THEN <<Head(vs)>> ELSE ScanValues(Tail(vs), name)

Found(docstring, decl) == [docstring |-> docstring, decl |-> decl]

\* findInBuiltin with the types searched before the functions and values
findInBuiltinTypesFirst(name, obj, pkg, printOK) ==
  LET f == ScanFuncs(AllFuncs(pkg), name)
      c == ScanValues(AllConsts(pkg), name)
      v == ScanValues(AllVars(pkg), name)
      t == ScanFuncs(pkg.Types, name)
  IN IF t # << >> THEN Found(t[1].Doc, formatNode(t[1].Decl, obj, printOK))
     ELSE IF f # << >> THEN Found(f[1].Doc, formatNode(f[1].Decl, obj, printOK))
     ELSE IF c # << >> THEN Found(c[1].Doc, EmptyDecl)
     ELSE IF v # << >> THEN Found(v[1].Doc, EmptyDecl)
     ELSE Found(EmptyText, EmptyDecl)

findInBuiltin(name, obj, pkg, printOK) ==
  LET f == ScanFuncs(AllFuncs(pkg), name)
      c == ScanValues(AllConsts(pkg), name)
      v == ScanValues(AllVars(pkg), name)
      t == ScanFuncs(pkg.Types, name)
  IN IF f # << >> THEN Found(f[1].Doc, formatNode(f[1].Decl, obj, printOK))
     ELSE IF c # << >> THEN Found(c[1].Doc, EmptyDecl)
     ELSE IF v # << >> THEN Found(v[1].Doc, EmptyDecl)
     ELSE IF t # << >> THEN Found(t[1].Doc, formatNode(t[1].Decl, obj, printOK))
     ELSE Found(EmptyText, EmptyDecl)

\* ------------------------------------------------------------ PackageDoc
\* world is what ctxt.Import and parser.ParseDir yield for the import path:
\* ok = FALSE when either fails or no parsed package has the build name.
PackageDoc(importPath, world) ==
  IF world.ok
  THEN [err |-> EmptyText,
        doc |-> [Name |-> world.name, Import |-> <<importPath>>, Pkg |-> <<world.name>>,
                 Decl |-> PackageClause(world.name), Doc |-> world.doc, Pos |-> NoPos]]
  ELSE [err |-> <<"package lookup failed">>,
        doc |-> [Name |-> "", Import |-> EmptyText, Pkg |-> EmptyText,
                 Decl |-> EmptyDecl, Doc |-> EmptyText, Pos |-> NoPos]]

NoDoc ==
  [Name |-> "", Import |-> EmptyText, Pkg |-> EmptyText, Decl |-> EmptyDecl,
   Doc |-> EmptyText, Pos |-> NoPos]

NotFoundErr(name) == <<"No documentation found for ", name>>

\* ----------------------------------------------------- IdentDoc, helpers
\* pkg.ObjectOf(id): the definition if there is one, else the use
ObjectOf(id) == IF id.defs # NoObj THEN id.defs ELSE id.uses

\* lines 263-268
ResolveObj(id) ==
  LET o == ObjectOf(id)
  IN IF o.kind = "Var" /\ o.anonymous THEN id.uses ELSE o

IsDeclKind(k) == k \in {"FuncDecl", "GenDecl", "Field", "TypeSpec", "ValueSpec"}

RECURSIVE LocateNodeBreakLoop(_)
\* the first loop with the default case leaving the loop, not the switch
LocateNodeBreakLoop(nodes) ==
  IF nodes = << >> THEN NoNode
  ELSE IF Head(nodes).kind = "Ident" THEN LocateNodeBreakLoop(Tail(nodes))
  ELSE IF IsDeclKind(Head(nodes).kind) THEN Head(nodes)
  ELSE NoNode

RECURSIVE LocateNode(_)
\* the first loop over nodes (lines 308-326): identifiers are skipped; for
\* every other node the switch is left (the default's break leaves the
\* switch only) and the node is taken.
LocateNode(nodes) ==
  IF nodes = << >> THEN NoNode
  ELSE IF Head(nodes).kind = "Ident" THEN LocateNode(Tail(nodes))
  ELSE IF IsDeclKind(Head(nodes).kind) THEN Head(nodes)
  ELSE Head(nodes)

\* fmt.Sprintf("\nConstant Value: %s", constValue)
ConstantValueLine(constValue) == <<"\n", "Constant Value: ", constValue>>

RECURSIVE ExtractDocGroupFirst(_, _, _)
\* the second loop with a spec deferring to its group: the spec's own doc
\* and comment are used only when the loop ends without a grouped declaration
ExtractDocGroupFirst(nodes, obj, d) ==
  IF nodes = << >> THEN d
  ELSE LET n == Head(nodes)
       IN IF n.kind = "Ident" THEN ExtractDocGroupFirst(Tail(nodes), obj, d)
          ELSE IF n.kind = "FuncDecl" THEN CommentText(n.doc)
          ELSE IF n.kind = "Field"
          THEN IF ~n.doc.isNil THEN CommentText(n.doc)
               ELSE IF ~n.comment.isNil THEN CommentText(n.comment)
               ELSE d
          ELSE IF n.kind \in {"TypeSpec", "ValueSpec"}
          THEN ExtractDocGroupFirst(Tail(nodes), obj,
                                    IF ~n.doc.isNil THEN CommentText(n.doc)
                                    ELSE CommentText(n.comment))
          ELSE IF n.kind = "GenDecl"
          THEN LET constValue == IF obj.kind = "Const" THEN ExactString(obj.val) ELSE ""
                   d1 == IF ~n.doc.isNil THEN CommentText(n.doc) ELSE d
               IN IF constValue # "" THEN d1 \o ConstantValueLine(constValue) ELSE d1
          ELSE d

RECURSIVE ExtractDoc(_, _, _)
\* the second loop over nodes (lines 332-381); d is doc.Doc so far
ExtractDoc(nodes, obj, d) ==
  IF nodes = << >> THEN d
  ELSE LET n == Head(nodes)
       IN IF n.kind = "Ident" THEN ExtractDoc(Tail(nodes), obj, d)
          ELSE IF n.kind = "FuncDecl" THEN CommentText(n.doc)
          ELSE IF n.kind = "Field"
          THEN IF ~n.doc.isNil THEN CommentText(n.doc)
               ELSE IF ~n.comment.isNil THEN CommentText(n.comment)
               ELSE d
          ELSE IF n.kind \in {"TypeSpec", "ValueSpec"}
          THEN IF ~n.doc.isNil THEN CommentText(n.doc)
               ELSE IF ~n.comment.isNil THEN CommentText(n.comment)
               ELSE ExtractDoc(Tail(nodes), obj, d)
          ELSE IF n.kind = "GenDecl"
          THEN LET constValue == IF obj.kind = "Const" THEN ExactString(obj.val) ELSE ""
                   d1 == IF d = EmptyText /\ ~n.doc.isNil THEN CommentText(n.doc) ELSE d
               IN IF constValue # "" THEN d1 \o ConstantValueLine(constValue) ELSE d1
          ELSE d

\* ------------------------------------------------------------ the inputs
Names == {"a", "b"}

Other(name) == IF name = "a" THEN "b" ELSE "a"

ConstVals == {"5", "\"\""}

\* enclosing nodes of a declaration: package level, or local to a function
Outers ==
  { <<PlainNode("File")>>,
    <<PlainNode("DeclStmt"), PlainNode("BlockStmt"),
      MkNode("FuncDecl", "outer", << >>, CommentOf(<<"outer func doc">>), NoComment,
             << >>, FALSE, TRUE),
      PlainNode("File")>> }

StmtOuter ==
  <<PlainNode("BlockStmt"),
    MkNode("FuncDecl", "outer", << >>, CommentOf(<<"outer func doc">>), NoComment,
           << >>, FALSE, TRUE),
    PlainNode("File")>>

FuncPaths(name) ==
  { <<PlainNode("Ident"),
      MkNode("FuncDecl", name, << >>, d, NoComment, << >>, FALSE, b),
      PlainNode("File")>> : d \in CommentChoices("func doc"), b \in BOOLEAN }

\* a TypeSpec or ValueSpec with its GenDecl.  The parser gives the spec of
\* an ungrouped declaration no Doc of its own; a group may hold a sibling.
SpecShapes ==
  { c \in [sd : CommentChoices("spec doc"), sc : CommentChoices("spec comment"),
           gd : CommentChoices("group doc"), outer : Outers,
           grouped : BOOLEAN, sibling : BOOLEAN] :
      ~c.grouped => (~c.sibling /\ c.sd.isNil) }

SpecPath(kind, name, pos, c) ==
  <<PlainNode("Ident"),
    MkNode(kind, name, <<pos>>, c.sd, c.sc, << >>, FALSE, FALSE),
    MkNode("GenDecl", "", << >>, c.gd, NoComment,
           IF c.sibling
           THEN <<MkSpec(kind, name, <<pos>>, c.sd),
                  MkSpec(kind, Other(name), <<pos + 2>>, NoComment)>>
           ELSE <<MkSpec(kind, name, <<pos>>, c.sd)>>,
           c.grouped, FALSE)>> \o c.outer

SpecPaths(kind, name, pos) == { SpecPath(kind, name, pos, c) : c \in SpecShapes }

HostType ==
  <<MkNode("TypeSpec", "host", <<9>>, NoComment, NoComment, << >>, FALSE, FALSE),
    MkNode("GenDecl", "", << >>, CommentOf(<<"host doc">>), NoComment,
           <<MkSpec("TypeSpec", "host", <<9>>, NoComment)>>, FALSE, FALSE),
    PlainNode("File")>>

\* a struct field or an interface method, inside the type that declares it
FieldPaths(container) ==
  { <<PlainNode("Ident"),
      MkNode("Field", "", << >>, fd, fc, << >>, FALSE, FALSE),
      PlainNode("FieldList"), PlainNode(container)>> \o HostType :
      fd \in CommentChoices("field doc"), fc \in CommentChoices("field comment") }

ParamPaths ==
  { <<PlainNode("Ident"), PlainNode("Field"), PlainNode("FieldList"),
      PlainNode("FuncType"),
      MkNode("FuncDecl", "outer", << >>, CommentOf(<<"outer func doc">>), NoComment,
             << >>, FALSE, TRUE),
      PlainNode("File")>> }

\* a variable of a short declaration or a range clause, or a label
StmtPaths(kind) == { <<PlainNode("Ident"), PlainNode(kind)>> \o StmtOuter }

\* builtin catalogue entries: a function, a constant group, a variable
\* group, or a type, the type possibly with one associated member
EntryDescs ==
  { e \in [bucket : {"func", "const", "var", "type"}, name : Names,
           documented : BOOLEAN, pair : BOOLEAN,
           member : {"none", "func", "const", "var"}, mname : Names] :
      /\ e.bucket \in {"func", "type"} => ~e.pair
      /\ e.bucket # "type" => e.member = "none"
      /\ e.member = "none" => e.mname = e.name }

EntryDoc(e, tag) == IF e.documented THEN <<tag, "doc">> ELSE EmptyText

BuiltinFunc(name, d) ==
  [Name |-> name, Doc |-> d,
   Decl |-> MkNode("FuncDecl", name, << >>, NoComment, NoComment, << >>, FALSE, FALSE)]

BuiltinValue(names, d) == [Names |-> names, Doc |-> d]

\* go/doc gives every type a declaration of its own holding one TypeSpec
BuiltinType(e) ==
  [Name |-> e.name, Doc |-> EntryDoc(e, "type"),
   Decl |-> MkNode("GenDecl", "", << >>, NoComment, NoComment,
                   <<MkSpec("TypeSpec", e.name, <<1>>, NoComment)>>, FALSE, FALSE),
   Funcs |-> IF e.member = "func"
             THEN <<BuiltinFunc(e.mname, <<"member func", "doc">>)>> ELSE << >>,
   Consts |-> IF e.member = "const"
              THEN <<BuiltinValue(<<e.mname>>, <<"member const", "doc">>)>> ELSE << >>,
   Vars |-> IF e.member = "var"
            THEN <<BuiltinValue(<<e.mname>>, <<"member var", "doc">>)>> ELSE << >>]

ValueNames(e) == IF e.pair THEN <<Other(e.name), e.name>> ELSE <<e.name>>

RECURSIVE Catalogue(_)
\* the doc.Package holding the entries es, in their order
Catalogue(es) ==
  IF es = << >> THEN [Funcs |-> << >>, Consts |-> << >>, Vars |-> << >>, Types |-> << >>]
  ELSE LET e == Head(es)
           rest == Catalogue(Tail(es))
       IN IF e.bucket = "func"
          THEN [rest EXCEPT !.Funcs = <<BuiltinFunc(e.name, EntryDoc(e, "func"))>> \o @]
          ELSE IF e.bucket = "const"
          THEN [rest EXCEPT !.Consts =
                  <<BuiltinValue(ValueNames(e), EntryDoc(e, "const"))>> \o @]
          ELSE IF e.bucket = "var"
          THEN [rest EXCEPT !.Vars =
                  <<BuiltinValue(ValueNames(e), EntryDoc(e, "var"))>> \o @]
          ELSE [rest EXCEPT !.Types = <<BuiltinType(e)>> \o @]

EmptyCatalogue == Catalogue(<< >>)

SeqsUpTo(S, n) == UNION { [1..k -> S] : k \in 0..n }

Worlds ==
  { [ok |-> FALSE, name |-> "", doc |-> EmptyText] } \cup
  { [ok |-> TRUE, name |-> "q", doc |-> d] : d \in {EmptyText, <<"package doc">>} }

NoWorld == [ok |-> FALSE, name |-> "", doc |-> EmptyText]

\* the file: the path PathEnclosingInterval yields at each position
FileOf(path1, path2) == [p \in 1..2 |-> IF p = 1 THEN path1 ELSE path2]

PathEnclosingInterval(af, pos) == af[pos]

\* a symbol with the path to its declaration
Declared ==
  { [obj |-> MkObj("Func", FALSE, "p", "a", 1, "", ""), path |-> p] :
      p \in FuncPaths("a") } \cup
  { [obj |-> MkObj("TypeName", FALSE, "p", "a", 1, "", ""), path |-> p] :
      p \in SpecPaths("TypeSpec", "a", 1) } \cup
  { [obj |-> MkObj("Var", FALSE, "p", "a", 1, "", ""), path |-> p] :
      p \in SpecPaths("ValueSpec", "a", 1) } \cup
  UNION { { [obj |-> MkObj("Const", FALSE, "p", "a", 1, v, ""), path |-> p] :
              p \in SpecPaths("ValueSpec", "a", 1) } : v \in ConstVals } \cup
  { [obj |-> MkObj("Var", FALSE, "p", "a", 1, "", ""), path |-> p] :
      p \in FieldPaths("StructType") \cup ParamPaths \cup StmtPaths("AssignStmt")
            \cup StmtPaths("RangeStmt") } \cup
  { [obj |-> MkObj("Func", FALSE, "p", "a", 1, "", ""), path |-> p] :
      p \in FieldPaths("InterfaceType") } \cup
  { [obj |-> MkObj("Label", FALSE, "p", "a", 1, "", ""), path |-> p] :
      p \in StmtPaths("LabeledStmt") }

\* what the type checker recorded for the queried identifier
MkIdent(defs, uses) == [defs |-> defs, uses |-> uses]

\* ----------------------------------------------------------- the program
VARIABLES id, file, builtin, world, pc, obj, found, node, doc, ret

vars == <<id, file, builtin, world, pc, obj, found, node, doc, ret>>

NoFound == Found(EmptyText, EmptyDecl)

NoRet == [err |-> EmptyText, doc |-> NoDoc]

Locals ==
  /\ pc = "start"
  /\ obj = NoObj
  /\ found = NoFound
  /\ node = NoNode
  /\ doc = NoDoc
  /\ ret = NoRet

\* an identifier that defines or uses a symbol of a loaded package
InitDeclared ==
  /\ \E d \in Declared :
       /\ id \in {MkIdent(d.obj, NoObj), MkIdent(NoObj, d.obj)}
       /\ file = FileOf(d.path, <<PlainNode("File")>>)
  /\ builtin = EmptyCatalogue
  /\ world = NoWorld

EmbeddedField == MkObj("Var", TRUE, "p", "b", 1, "", "")

EmbeddedType == MkObj("TypeName", FALSE, "p", "b", 2, "", "")

\* an identifier that is, or selects, an embedded field of type b declared
\* in the same package: the field is at position 1, the type at position 2.
\* At the field the checker records the field in Defs and the type in Uses;
\* at a selector it records the field in Uses.
InitEmbedded ==
  /\ id \in {MkIdent(EmbeddedField, EmbeddedType), MkIdent(NoObj, EmbeddedField)}
  /\ \E fp \in FieldPaths("StructType"), tp \in SpecPaths("TypeSpec", "b", 2) :
       file = FileOf(fp, tp)
  /\ builtin = EmptyCatalogue
  /\ world = NoWorld

\* an identifier bound to an imported package
InitPackage ==
  /\ \E n \in {"q", "alias"} :
       LET o == MkObj("PkgName", FALSE, "p", n, 1, "", "example.org/q")
       IN id \in {MkIdent(o, NoObj), MkIdent(NoObj, o)}
  /\ file = FileOf(<<PlainNode("Ident"), PlainNode("ImportSpec"),
                     PlainNode("GenDecl"), PlainNode("File")>>, <<PlainNode("File")>>)
  /\ builtin = EmptyCatalogue
  /\ world \in Worlds

\* an identifier that uses a symbol of the universe scope
InitBuiltin ==
  /\ \E k \in {"Builtin", "Const", "TypeName", "Nil"} :
       id = MkIdent(NoObj, MkObj(k, FALSE, "", "a", NoPos, IF k = "Const" THEN "5" ELSE "", ""))
  /\ file = FileOf(<<PlainNode("File")>>, <<PlainNode("File")>>)
  /\ \E es \in SeqsUpTo(EntryDescs, MaxEntries) : builtin = Catalogue(es)
  /\ world = NoWorld

Init == Locals /\ (InitDeclared \/ InitEmbedded \/ InitPackage \/ InitBuiltin)

\* lines 263-279: the symbol of the identifier
Resolve ==
  /\ pc = "start"
  /\ obj' = ResolveObj(id)
  /\ pc' = "resolved"
  /\ UNCHANGED <<id, file, builtin, world, found, node, doc, ret>>

\* lines 282-284: a package name is answered by PackageDoc
PackageRef ==
  /\ pc = "resolved"
  /\ obj.kind = "PkgName"
  /\ ret' = PackageDoc(obj.imported, world)
  /\ pc' = "done"
  /\ UNCHANGED <<id, file, builtin, world, obj, found, node, doc>>

\* line 289: a symbol without a package is looked up in the builtin package
BuiltinLookup ==
  /\ pc = "resolved"
  /\ obj.kind # "PkgName"
  /\ obj.pkg = ""
  /\ \E printOK \in BOOLEAN : found' = findInBuiltin(obj.name, obj, builtin, printOK)
  /\ pc' = "builtin"
  /\ UNCHANGED <<id, file, builtin, world, obj, node, doc, ret>>

\* the builtin record with the import path and package name of the symbol
BuiltinDocOwnPackage(o, f) ==
  [Name |-> o.name, Import |-> EmptyText, Pkg |-> EmptyText,
   Decl |-> f.decl, Doc |-> f.docstring, Pos |-> o.pos]

\* lines 291-298: the record of a builtin symbol
BuiltinDoc(o, f) ==
  [Name |-> o.name, Import |-> <<"builtin">>, Pkg |-> <<"builtin">>,
   Decl |-> f.decl, Doc |-> f.docstring, Pos |-> o.pos]

\* lines 290-300
BuiltinReturn ==
  /\ pc = "builtin"
  /\ ret' = IF found.docstring # EmptyText
            THEN [err |-> EmptyText, doc |-> BuiltinDoc(obj, found)]
            ELSE [err |-> NotFoundErr(obj.name), doc |-> NoDoc]
  /\ pc' = "done"
  /\ UNCHANGED <<id, file, builtin, world, obj, found, node, doc>>

\* lines 304-330: the node to render
Locate ==
  /\ pc = "resolved"
  /\ obj.kind # "PkgName"
  /\ obj.pkg # ""
  /\ LET nodes == PathEnclosingInterval(file, obj.pos)
         n == LocateNode(nodes)
     IN /\ node' = n
        /\ IF n = NoNode
           THEN /\ ret' = [err |-> NotFoundErr(obj.name), doc |-> NoDoc]
                /\ pc' = "done"
                /\ doc' = doc
           ELSE /\ \E printOK \in BOOLEAN :
                     doc' = [Name |-> obj.name, Import |-> <<obj.pkg>>, Pkg |-> <<obj.pkg>>,
                             Decl |-> formatNode(n, obj, printOK), Doc |-> EmptyText,
                             Pos |-> obj.pos]
                /\ pc' = "located"
                /\ ret' = ret
  /\ UNCHANGED <<id, file, builtin, world, obj, found>>

\* lines 332-381: the documentation text
Extract ==
  /\ pc = "located"
  /\ ret' = [err |-> EmptyText,
             doc |-> [doc EXCEPT !.Doc =
                        ExtractDoc(PathEnclosingInterval(file, obj.pos), obj, doc.Doc)]]
  /\ pc' = "done"
  /\ UNCHANGED <<id, file, builtin, world, obj, found, node, doc>>

Next == Resolve \/ PackageRef \/ BuiltinLookup \/ BuiltinReturn \/ Locate \/ Extract

Spec == Init /\ [][Next]_vars

\* ------------------------------------------- formatNode on its own inputs
\* a grouped declaration of n specs: spec i declares the identifier at
\* position 2i-1 and, for a value spec with two names, also the one at 2i
GroupSpecs(kind, n, two, docs) ==
  [i \in 1..n |->
     MkSpec(kind, ToString(i),
            IF kind = "ValueSpec" /\ two THEN <<2 * i - 1, 2 * i>> ELSE <<2 * i - 1>>,
            IF i \in docs THEN CommentOf(<<"spec doc">>) ELSE NoComment)]

GroupDeclsOf(n) ==
  { MkNode("GenDecl", "", << >>, gd, NoComment, GroupSpecs(k, n, two, docs), TRUE, FALSE) :
      gd \in {NoComment, CommentOf(<<"group doc">>)},
      k \in {"TypeSpec", "ValueSpec", "ImportSpec"},
      two \in BOOLEAN, docs \in SUBSET (1..n) }

GroupDecls == UNION { GroupDeclsOf(n) : n \in 1..MaxSpecs }

NamePositions(n) ==
  UNION { { n.specs[i].names[k] : k \in 1..Len(n.specs[i].names) } : i \in 1..Len(n.specs) }

\* formatNode is handed a grouped declaration and a symbol whose position
\* is that of a name the group declares, or is invalid
FormatInit ==
  /\ pc = "format"
  /\ node \in GroupDecls
  /\ \E k \in {"TypeName", "Var", "Const"}, p \in NamePositions(node) \cup {NoPos} :
       obj = MkObj(k, FALSE, IF p = NoPos THEN "" ELSE "p", "a", p,
                   IF k = "Const" THEN "5" ELSE "", "")
  /\ id = MkIdent(NoObj, obj)
  /\ file = FileOf(<<PlainNode("File")>>, <<PlainNode("File")>>)
  /\ builtin = EmptyCatalogue
  /\ world = NoWorld
  /\ found = NoFound
  /\ doc = NoDoc
  /\ ret = NoRet

FormatNodeCall ==
  /\ pc = "format"
  /\ \E printOK \in BOOLEAN : doc' = [doc EXCEPT !.Decl = formatNode(node, obj, printOK)]
  /\ pc' = "formatted"
  /\ UNCHANGED <<id, file, builtin, world, obj, found, node, ret>>

FormatSpec == FormatInit /\ [][FormatNodeCall]_vars

\* ======================================================== the properties
Returned == pc = "done" /\ ret.err = EmptyText

PackageOwned == obj.kind # "PkgName" /\ obj.pkg # ""

BuiltinSymbol == obj.kind # "PkgName" /\ obj.pkg = "" /\ obj.kind # "none"

\* the nodes IdentDoc walks for the resolved symbol
Nodes == PathEnclosingInterval(file, obj.pos)

EndsWith(t, suffix) ==
  /\ Len(t) >= Len(suffix)
  /\ SubSeq(t, Len(t) - Len(suffix) + 1, Len(t)) = suffix

\* C1: the documentation returned for a constant of a package ends with the
\* line "Constant Value: <exact value>", whatever documentation was found,
\* also when the value specification has a doc comment or trailing comment.
C1_ConstantValueLine ==
  (Returned /\ PackageOwned /\ obj.kind = "Const")
    => EndsWith(ret.doc.Doc, ConstantValueLine(ExactString(obj.val)))

FuncNamed(name) ==
  { i \in 1..Len(AllFuncs(builtin)) : AllFuncs(builtin)[i].Name = name }

ConstNamed(name) ==
  { i \in 1..Len(AllConsts(builtin)) : HasName(AllConsts(builtin)[i], name) }

VarNamed(name) ==
  { i \in 1..Len(AllVars(builtin)) : HasName(AllVars(builtin)[i], name) }

TypeNamed(name) ==
  { i \in 1..Len(builtin.Types) : builtin.Types[i].Name = name }

Least(S) == CHOOSE i \in S : \A j \in S : i <= j

\* the declaration text is a rendering of the declaration called name
RendersDecl(decl, kind, name) ==
  \/ decl.form = "printed" /\ decl.kind = kind /\
       (IF kind = "GenDecl"
        THEN Len(decl.specs) = 1 /\ decl.specs[1].name = name
        ELSE decl.name = name)
  \/ decl.form = "objstring" /\ decl.name = obj.name

\* C2: findInBuiltin answers from the first bucket, in the order functions,
\* constants, variables, types, that has an entry with the name, and from
\* the first such entry of that bucket.
C2_BucketOrder ==
  pc = "builtin" =>
    LET name == obj.name
    IN IF FuncNamed(name) # {}
       THEN /\ found.docstring = AllFuncs(builtin)[Least(FuncNamed(name))].Doc
            /\ RendersDecl(found.decl, "FuncDecl", name)
       ELSE IF ConstNamed(name) # {}
       THEN /\ found.docstring = AllConsts(builtin)[Least(ConstNamed(name))].Doc
            /\ found.decl = EmptyDecl
       ELSE IF VarNamed(name) # {}
       THEN /\ found.docstring = AllVars(builtin)[Least(VarNamed(name))].Doc
            /\ found.decl = EmptyDecl
       ELSE IF TypeNamed(name) # {}
       THEN /\ found.docstring = builtin.Types[Least(TypeNamed(name))].Doc
            /\ RendersDecl(found.decl, "GenDecl", name)
       ELSE found = NoFound

\* a name that is a documented constant and also a type: the constant wins
C2_Witness ==
  /\ pc = "builtin"
  /\ FuncNamed(obj.name) = {}
  /\ ConstNamed(obj.name) # {}
  /\ TypeNamed(obj.name) # {}
  /\ found.docstring = <<"const", "doc">>

\* C3: every record returned without error has a non-empty declaration
\* text, for package symbols, package references and builtin symbols.
C3_DeclNonEmpty == Returned => ret.doc.Decl.form # "empty"

NamesEmbeddedField ==
  \/ id.defs.kind = "Var" /\ id.defs.anonymous
  \/ id.defs = NoObj /\ id.uses.kind = "Var" /\ id.uses.anonymous

\* C4: an identifier naming an embedded field, at the field or at a use
\* such as a selector, resolves to the embedded type: the record is the one
\* of the type's declaration, not of the field.
C4_EmbeddedResolvesToType ==
  (Returned /\ NamesEmbeddedField) =>
    /\ obj = EmbeddedType
    /\ ret.doc.Pos = EmbeddedType.pos
    /\ ret.doc.Doc = ExtractDoc(PathEnclosingInterval(file, EmbeddedType.pos),
                                EmbeddedType, EmptyText)

IsGroup(n) ==
  /\ n.kind = "GenDecl"
  /\ Len(n.specs) > 0
  /\ n.specs[1].kind \in {"TypeSpec", "ValueSpec"}

SpecsAt(n, pos) ==
  { i \in 1..Len(n.specs) : \E k \in 1..Len(n.specs[i].names) : n.specs[i].names[k] = pos }

Rendered == pc = "formatted" /\ doc.Decl.form = "printed"

C6_LocatorFindsNode ==
  (pc \in {"located", "done"} /\ PackageOwned /\ obj.pos # NoPos) =>
    /\ node # NoNode
    /\ ret.err # NotFoundErr(obj.name)

C6_Witness ==
  /\ Returned
  /\ PackageOwned
  /\ obj.pos # NoPos
  /\ node.kind = "AssignStmt"

\* C7 as stated: the record of a builtin symbol has an empty import path.
C7_BuiltinImportEmpty ==
  (Returned /\ BuiltinSymbol) => ret.doc.Import = EmptyText

\* C7 as the code has it: the record of a builtin symbol has the import
\* path "builtin" (and the package name "builtin").
C7_BuiltinImportIsBuiltin ==
  (Returned /\ BuiltinSymbol) =>
    /\ ret.doc.Import = <<"builtin">>
    /\ ret.doc.Pkg = <<"builtin">>

C7_Witness == Returned /\ BuiltinSymbol /\ ret.doc.Name = "a"

\* C8: the node the locator selects is a function declaration, grouped
\* declaration, field, type specification or value specification, never a
\* node of another kind.
C8_SelectedNodeIsDeclaration ==
  (pc \in {"located", "done"} /\ PackageOwned /\ node # NoNode) => IsDeclKind(node.kind)

NoBucketHas(name) ==
  /\ FuncNamed(name) = {}
  /\ ConstNamed(name) = {}
  /\ VarNamed(name) = {}
  /\ TypeNamed(name) = {}

\* C9: for a builtin symbol IdentDoc fails with "No documentation found"
\* only when no bucket has an entry with the name; when some bucket has
\* one, a record is returned, also when that entry's documentation is empty.
C9_FailsOnlyWhenNoMatch ==
  (pc = "done" /\ BuiltinSymbol) =>
    (ret.err = NotFoundErr(obj.name) <=> NoBucketHas(obj.name))

DeclaredBySpec ==
  /\ PackageOwned
  /\ Len(Nodes) >= 3
  /\ Nodes[1].kind = "Ident"
  /\ Nodes[2].kind \in {"TypeSpec", "ValueSpec"}
  /\ Nodes[3].kind = "GenDecl"

\* C10: for a symbol declared by a type or value specification the
\* documentation is the spec's own doc comment if it has one, else its own
\* trailing comment if it has one, else, and only then, the doc comment of
\* the enclosing grouped declaration (followed, for a constant, by the
\* constant-value line that the grouped declaration adds).
C10_SpecDocPrecedence ==
  (Returned /\ DeclaredBySpec) =>
    LET s == Nodes[2]
        g == Nodes[3]
    IN ret.doc.Doc =
         IF ~s.doc.isNil THEN s.doc.text
         ELSE IF ~s.comment.isNil THEN s.comment.text
         ELSE CommentText(g.doc) \o
              (IF obj.kind = "Const" THEN ConstantValueLine(obj.val) ELSE EmptyText)

\* a spec with a doc comment and a trailing comment inside a documented group
C10_Witness ==
  /\ Returned
  /\ DeclaredBySpec
  /\ Nodes[2].doc = CommentOf(<<"spec doc">>)
  /\ Nodes[2].comment = CommentOf(<<"spec comment">>)
  /\ Nodes[3].doc = CommentOf(<<"group doc">>)
  /\ ret.doc.Doc = <<"spec doc">>

====
